---- MODULE Spec2Model ----
(***************************************************************************)
(* Model of the scribe cloud functions.                                    *)
(*                                                                         *)
(* The repository holds three revisions of the same design:                *)
(*   "r0"  src/functions/index.js          getEnhancedReceipt only         *)
(*   "r1"  src/unnamed/part_000:1-154      + updateMemoryOnNewReceipt      *)
(*   "r2"  src/unnamed/part_000:157-320    + editReceipt, deleteReceipt    *)
(* One revision is deployed (rev).  The store holds, for every user u,     *)
(* users/{u} (userDoc[u]), users/{u}/receipts/* (receipts[u]) and          *)
(* users/{u}/memory/summary (memoryDoc[u]).  db.runTransaction is the      *)
(* store's optimistic transaction: transaction.get puts userDoc[u] in the  *)
(* read set, the writes are buffered, the commit applies them all if       *)
(* userDoc[u] is unchanged since it was read and otherwise the update      *)
(* function is run again from scratch; an exception thrown by the update   *)
(* function rejects the transaction and discards the buffered writes.      *)
(*                                                                         *)
(* txn[u] is the bag of u's running onCreate handlers and lastEnded[u] how *)
(* the last of them ended; lastCall is the response of the callable        *)
(* function that ran in the last step.  commitLog[u] (the counts read by   *)
(* the committed transactions), refreshLog[u] (the committed refreshes)    *)
(* and failedAt[u] (the rejected transactions) are histories.              *)
(***************************************************************************)
EXTENDS Integers, Sequences, FiniteSets, Bags, TLC

VARIABLES rev, scn, userDoc, userVer, receipts, created, memoryDoc,
          serverTime, txn, lastEnded, lastCall, mutations,
          commitLog, refreshLog, failedAt

vars == <<rev, scn, userDoc, userVer, receipts, created, memoryDoc,
          serverTime, txn, lastEnded, lastCall, mutations,
          commitLog, refreshLog, failedAt>>

(* ------------------------------ bounds -------------------------------- *)

\* Receipts created per user, running handlers per user, failed generative
\* calls per user and edits/deletes in all.
MaxCreated == 10

MaxInFlight == 2

MaxFailures == 1

MaxMutations == 1

\* The generative backend answers with one of NumTexts texts.
NumTexts == 2

\* Receipts created one after the other (SpecSeq), and created while the
\* signed-in user calls the functions (Spec).
MaxSeqCreated == 20

MaxCallCreated == 5

\* Receipts already stored when the context is assembled (SpecContext), and
\* the size up to which every order of their timestamps is tried.
MaxStored == 17

MaxPermuted == 4

\* Receipts each of two users creates on top of those already counted
\* (SpecIsolation).
MaxLateCreated == 1

\* Receipts created while the backend never fails (SpecLive).
MaxLiveCreated == 6

(* ------------------------- program constants -------------------------- *)

K == 5

CuratorLimit == 15

ScribeLimit == 3

Revisions == {"r0", "r1", "r2"}

(* ------------------------------ helpers ------------------------------- *)

Min(a, b) == IF a <= b THEN a ELSE b

Reverse(s) == [i \in 1..Len(s) |-> s[Len(s) + 1 - i]]

Range(s) == {s[i] : i \in 1..Len(s)}

Limit(s, n) == SubSeq(s, 1, Min(n, Len(s)))

OrderByTimestampDesc(docs) ==
  LET Newest(ids) == CHOOSE d \in ids :
                       \A o \in ids : docs[o].timestamp <= docs[d].timestamp
      sorted[ids \in SUBSET DOMAIN docs] ==
        IF ids = {} THEN <<>>
        ELSE <<Newest(ids)>> \o sorted[ids \ {Newest(ids)}]
  IN  sorted[DOMAIN docs]

\* db.collection(`users/${u}/receipts`).orderBy("timestamp", "desc")
\* .limit(n).get(): the ids of the snapshot's documents, newest first.
ReceiptsQuery(u, n) == Limit(OrderByTimestampDesc(receipts[u]), n)

\* .map(d => `- ${d.data().message}`) over the snapshot's documents.
Lines(u, docs) == [i \in 1..Len(docs) |-> receipts[u][docs[i]].message]

Users == scn.users

\* A call without context.auth.
Anon == "anon"

Callers == Users \cup {Anon}

Texts == 1..NumTexts

NoUserDoc == [exists |-> FALSE, hasCount |-> FALSE, receiptCount |-> 0]

NoMemoryDoc == [exists |-> FALSE, summary |-> 0, lastUpdated |-> 0]

\* One running onCreate handler: where it is in the update function, what
\* it has read and buffered, and whether the store has re-run it.
Fresh == [pc |-> "start", retried |-> FALSE, readVer |-> 0, newCount |-> 0,
          seen |-> {}, docs |-> <<>>, recentHistory |-> <<>>,
          currentMemory |-> 0, newSummary |-> 0]

\* The running handlers of u's creation events (txn[u], a bag: handlers in
\* the same local state are interchangeable) and how many they are.
Running(u) == BagToSet(txn[u])

InFlight(u) == BagCardinality(txn[u])

\* No handler of the user has ended yet.
Idle == [pc |-> "idle", retried |-> FALSE, newCount |-> 0]

\* How a handler ended: "done" (committed) or "failed" (rejected).
Outcome(h, pc) == [pc |-> pc, retried |-> h.retried, newCount |-> h.newCount]

\* Handler h of u goes on as h2.
Step(u, h, h2) ==
  txn' = [txn EXCEPT ![u] = (@ (-) SetToBag({h})) (+) SetToBag({h2})]

\* Handler h of u ends.
End(u, h, pc) ==
  /\ txn' = [txn EXCEPT ![u] = @ (-) SetToBag({h})]
  /\ lastEnded' = [lastEnded EXCEPT ![u] = Outcome(h, pc)]

\* The response of the callable function that ended in the last step, with
\* what it did to get there; NoCall after any other step.
NoCall == [op |-> "none", caller |-> "none", arg |-> "none", fault |-> "none",
           kind |-> "none", storeReads |-> 0, genCalls |-> 0, memory |-> 0,
           lines |-> <<>>, answer |-> 0, text |-> 0]

(* ------------------------------- Init --------------------------------- *)

InitStore ==
  /\ userDoc \in [Users -> {NoUserDoc,
                            [exists |-> TRUE, hasCount |-> FALSE, receiptCount |-> 0],
                            [exists |-> TRUE, hasCount |-> TRUE, receiptCount |-> 0]}]
  /\ userVer = [u \in Users |-> 0]
  /\ receipts = [u \in Users |-> <<>>]
  /\ created = [u \in Users |-> 0]
  /\ memoryDoc = [u \in Users |-> NoMemoryDoc]
  /\ serverTime = 0
  /\ txn = [u \in Users |-> EmptyBag]
  /\ lastEnded = [u \in Users |-> Idle]
  /\ lastCall = NoCall
  /\ mutations = 0
  /\ commitLog = [u \in Users |-> <<>>]
  /\ refreshLog = [u \in Users |-> <<>>]
  /\ failedAt = [u \in Users |-> <<>>]

\* The scenario (scn) bounds the environment: how many receipts are
\* created, how many handlers run at once, how many generative calls fail
\* and how many edits and deletes succeed.  The signed-in user calls the
\* functions between creations:
Init ==
  /\ rev \in Revisions
  /\ scn = [users |-> {"u1"}, maxCreated |-> MaxCallCreated, maxInFlight |-> 1,
            maxFailures |-> MaxFailures, maxMutations |-> MaxMutations]
  /\ InitStore

\* Receipts created while up to MaxInFlight handlers run.
InitPipeline ==
  /\ rev \in Revisions
  /\ scn = [users |-> {"u1"}, maxCreated |-> MaxCreated,
            maxInFlight |-> MaxInFlight, maxFailures |-> MaxFailures,
            maxMutations |-> 0]
  /\ InitStore

\* K receipts of one user created in a burst, starting from a user record
\* that counts no receipt: up to K handlers at once.
InitBurst ==
  /\ rev \in Revisions \ {"r0"}
  /\ scn = [users |-> {"u1"}, maxCreated |-> K, maxInFlight |-> K,
            maxFailures |-> MaxFailures, maxMutations |-> 0]
  /\ InitStore
  /\ \A u \in Users : userDoc[u].exists

\* Receipts created one after the other: each handler ends before the next
\* receipt is created.
InitSeq ==
  /\ rev \in Revisions \ {"r0"}
  /\ scn = [users |-> {"u1"}, maxCreated |-> MaxSeqCreated, maxInFlight |-> 1,
            maxFailures |-> MaxFailures, maxMutations |-> 0]
  /\ InitStore

\* Orders in which the creation times of n stored receipts relate to their
\* ids (document ids are opaque): every order for small n, and for any n
\* the same, the opposite, a rotation and odd ids before even ids.
StampOrders(n) ==
  (IF n <= MaxPermuted THEN Permutations(1..n) ELSE {})
    \cup {[d \in 1..n |-> d],
          [d \in 1..n |-> n + 1 - d],
          [d \in 1..n |-> ((d + n \div 2) % n) + 1],
          [d \in 1..n |-> IF d % 2 = 1 THEN (d + 1) \div 2
                                       ELSE (n + 1) \div 2 + d \div 2]}

\* The trigger is deployed over a store that already holds receipts: n
\* receipts with distinct creation times in some order, one of them
\* possibly deleted, and a counter one short of a refresh.  One more
\* receipt is created, and the signed-in user calls getEnhancedReceipt.
InitContext ==
  /\ rev \in Revisions
  /\ \E n \in 0..MaxStored :
       /\ scn = [users |-> {"u1"}, maxCreated |-> n + 1, maxInFlight |-> 1,
                 maxFailures |-> MaxFailures, maxMutations |-> 0]
       /\ created = [u \in Users |-> n]
       /\ \E stamp \in StampOrders(n), gone \in 0..n :
            receipts = [u \in Users |->
                          [d \in (1..n) \ {gone} |->
                             [message |-> d, timestamp |-> stamp[d]]]]
  /\ userDoc = [u \in Users |->
                  [exists |-> TRUE, hasCount |-> TRUE, receiptCount |-> K - 1]]
  /\ userVer = [u \in Users |-> 0]
  /\ memoryDoc = [u \in Users |-> NoMemoryDoc]
  /\ serverTime = 0
  /\ txn = [u \in Users |-> EmptyBag]
  /\ lastEnded = [u \in Users |-> Idle]
  /\ lastCall = NoCall
  /\ mutations = 0
  /\ commitLog = [u \in Users |-> <<>>]
  /\ refreshLog = [u \in Users |-> <<>>]
  /\ failedAt = [u \in Users |-> <<>>]

\* Two users who have each created K - 1 receipts, one after the other,
\* with the trigger deployed: the counters, versions and logs are those the
\* K - 1 committed transactions left.  Both go on creating receipts and
\* calling the functions.
InitIsolation ==
  /\ rev \in Revisions \ {"r0"}
  /\ scn = [users |-> {"u1", "u2"}, maxCreated |-> K - 1 + MaxLateCreated,
            maxInFlight |-> 1, maxFailures |-> MaxFailures,
            maxMutations |-> MaxMutations]
  /\ created = [u \in Users |-> K - 1]
  /\ receipts = [u \in Users |->
                   [d \in 1..(K - 1) |-> [message |-> d, timestamp |-> d]]]
  /\ userDoc = [u \in Users |->
                  [exists |-> TRUE, hasCount |-> TRUE, receiptCount |-> K - 1]]
  /\ userVer = [u \in Users |-> K - 1]
  /\ memoryDoc = [u \in Users |-> NoMemoryDoc]
  /\ serverTime = 2 * (K - 1)
  /\ txn = [u \in Users |-> EmptyBag]
  /\ lastEnded = [u \in Users |->
                    [pc |-> "done", retried |-> FALSE, newCount |-> K - 1]]
  /\ lastCall = NoCall
  /\ mutations = 0
  /\ commitLog = [u \in Users |-> [i \in 1..(K - 1) |-> i - 1]]
  /\ refreshLog = [u \in Users |-> <<>>]
  /\ failedAt = [u \in Users |-> <<>>]

\* The revision of part_000:157-320 with a generative backend that always
\* answers: up to MaxInFlight handlers at once, no failed call.
InitLive ==
  /\ rev = "r2"
  /\ scn = [users |-> {"u1"}, maxCreated |-> MaxLiveCreated,
            maxInFlight |-> MaxInFlight, maxFailures |-> 0, maxMutations |-> 0]
  /\ InitStore

(* --------------------------- entry creation --------------------------- *)

\* The client app writes users/{u}/receipts/{id}; with a trigger deployed
\* (r1, r2) the store raises one onCreate event for it.
CreateReceipt(u) ==
  /\ created[u] < scn.maxCreated
  /\ rev # "r0" => InFlight(u) < scn.maxInFlight
  /\ created' = [created EXCEPT ![u] = @ + 1]
  /\ receipts' = [receipts EXCEPT ![u] =
                    [d \in DOMAIN @ \cup {created[u] + 1} |->
                       IF d = created[u] + 1
                       THEN [message |-> created[u] + 1, timestamp |-> created[u] + 1]
                       ELSE @[d]]]
  /\ txn' = IF rev = "r0" THEN txn
            ELSE [txn EXCEPT ![u] = @ (+) SetToBag({Fresh})]
  /\ lastCall' = NoCall
  /\ UNCHANGED <<rev, scn, userDoc, userVer, memoryDoc, serverTime, lastEnded,
                 mutations, commitLog, refreshLog, failedAt>>

(* ---------------------- updateMemoryOnNewReceipt ---------------------- *)

\* userDoc.data().receiptCount || 0 (r1), guarded by userDoc.exists in r2.
CurrentCount(u) ==
  IF userDoc[u].exists /\ userDoc[u].hasCount THEN userDoc[u].receiptCount ELSE 0

\* r1 dereferences userDoc.data() of a missing document: a TypeError.
GetThrows(u) == rev = "r1" /\ ~userDoc[u].exists

\* Mutant of Qualifies: the modulus test on the count that was read.
QualifiesOnOldCount(newCount) == (newCount - 1) % K = 0

\* newCount % 5 !== 0 ends the update function early.
Qualifies(newCount) == newCount % K = 0

\* Mutant of Reject: the counter write is applied although the update
\* function threw (an increment made outside the transaction).
RejectKeepsCounter(u, h) ==
  /\ End(u, h, "failed")
  /\ userDoc' = [userDoc EXCEPT ![u] = [exists |-> TRUE, hasCount |-> TRUE,
                                        receiptCount |-> h.newCount]]
  /\ userVer' = [userVer EXCEPT ![u] = @ + 1]
  /\ UNCHANGED <<memoryDoc, serverTime, commitLog, refreshLog>>

\* The update function threw: runTransaction rejects, nothing is written.
Reject(u, h) ==
  /\ End(u, h, "failed")
  /\ UNCHANGED <<userDoc, userVer, memoryDoc, serverTime, commitLog, refreshLog>>

\* transaction.get(userRef), newCount, the buffered counter write, the
\* modulus test.
TxnGet(u, h) ==
  /\ h.pc = "start"
  /\ IF GetThrows(u)
     THEN /\ Reject(u, h)
          /\ failedAt' = [failedAt EXCEPT ![u] =
                            Append(@, [newCount |-> 0, why |-> "get"])]
     ELSE /\ Step(u, h, [h EXCEPT !.pc = IF Qualifies(CurrentCount(u) + 1)
                                         THEN "receipts" ELSE "commit",
                                  !.readVer = userVer[u],
                                  !.newCount = CurrentCount(u) + 1])
          /\ UNCHANGED <<userDoc, userVer, memoryDoc, serverTime, lastEnded,
                         commitLog, refreshLog, failedAt>>
  /\ lastCall' = NoCall
  /\ UNCHANGED <<rev, scn, receipts, created, mutations>>

\* receiptsQuery.get() and the rendering of recentHistory: a plain read,
\* outside the transaction's read set.
TxnQueryReceipts(u, h) ==
  /\ h.pc = "receipts"
  /\ \E receiptsSnapshot \in {ReceiptsQuery(u, CuratorLimit)} :
       \E lines \in {Lines(u, receiptsSnapshot)} :
          Step(u, h, [h EXCEPT !.pc = "memory",
                               !.seen = DOMAIN receipts[u],
                               !.docs = receiptsSnapshot,
                               !.recentHistory = Reverse(lines)])
  /\ lastCall' = NoCall
  /\ UNCHANGED <<rev, scn, userDoc, userVer, receipts, created, memoryDoc,
                 serverTime, lastEnded, mutations, commitLog, refreshLog,
                 failedAt>>

\* r1 calls memoryDoc.exists(), which is a boolean property of the admin
\* SDK's snapshot: a TypeError.
MemoryExistsThrows == rev = "r1"

\* memoryRef.get(): a plain read; currentMemory is "" (0) when absent.
TxnReadMemory(u, h) ==
  /\ h.pc = "memory"
  /\ IF MemoryExistsThrows
     THEN /\ Reject(u, h)
          /\ failedAt' = [failedAt EXCEPT ![u] =
                            Append(@, [newCount |-> h.newCount, why |-> "exists"])]
     ELSE /\ Step(u, h, [h EXCEPT !.pc = "generate",
                                  !.currentMemory = IF memoryDoc[u].exists
                                                    THEN memoryDoc[u].summary ELSE 0])
          /\ UNCHANGED <<userDoc, userVer, memoryDoc, serverTime, lastEnded,
                         commitLog, refreshLog, failedAt>>
  /\ lastCall' = NoCall
  /\ UNCHANGED <<rev, scn, receipts, created, mutations>>

\* model.generateContent(prompt) and response.text(): the backend answers
\* with some text, or the call throws.
TxnGenerate(u, h) ==
  /\ h.pc = "generate"
  /\ \/ \E t \in Texts :
          /\ Step(u, h, [h EXCEPT !.pc = "commit", !.newSummary = t])
          /\ UNCHANGED <<userDoc, userVer, memoryDoc, serverTime, lastEnded,
                         commitLog, refreshLog, failedAt>>
     \/ /\ Len(failedAt[u]) < scn.maxFailures
        /\ Reject(u, h)
        /\ failedAt' = [failedAt EXCEPT ![u] =
                          Append(@, [newCount |-> h.newCount, why |-> "generate"])]
  /\ lastCall' = NoCall
  /\ UNCHANGED <<rev, scn, receipts, created, mutations>>

\* Mutant of Validates: the counter is read outside the transaction, so the
\* commit never finds its read stale.
ValidatesNothing(u, h) == TRUE

\* The commit validates the read set: userDoc must be as it was read.
Validates(u, h) == userVer[u] = h.readVer

\* The buffered transaction.set/update of userRef.
CommittedUserDoc(u, h) ==
  [exists |-> TRUE, hasCount |-> TRUE, receiptCount |-> h.newCount]

\* Mutant of CommittedMemoryDoc: the summary is created once and an
\* existing one is kept (a create instead of a set).
CommittedMemoryDocKeepsFirst(u, h) ==
  IF Qualifies(h.newCount) /\ ~memoryDoc[u].exists
  THEN [exists |-> TRUE, summary |-> h.newSummary, lastUpdated |-> serverTime + 1]
  ELSE memoryDoc[u]

\* Mutant of CommittedMemoryDoc: the summary is written with update, which
\* changes an existing document only.
CommittedMemoryDocUpdateOnly(u, h) ==
  IF Qualifies(h.newCount) /\ memoryDoc[u].exists
  THEN [exists |-> TRUE, summary |-> h.newSummary, lastUpdated |-> serverTime + 1]
  ELSE memoryDoc[u]

\* The buffered transaction.set(memoryRef, {summary, lastUpdated}).
CommittedMemoryDoc(u, h) ==
  IF Qualifies(h.newCount)
  THEN [exists |-> TRUE, summary |-> h.newSummary,
        lastUpdated |-> serverTime + 1]
  ELSE memoryDoc[u]

\* Mutant of Retry: the aborted attempt's counter write stays visible.
RetryLeaksCounter(u, h) ==
  /\ Step(u, h, [Fresh EXCEPT !.retried = TRUE])
  /\ userDoc' = [userDoc EXCEPT ![u] = [exists |-> TRUE, hasCount |-> TRUE,
                                        receiptCount |-> h.newCount]]
  /\ userVer' = [userVer EXCEPT ![u] = @ + 1]
  /\ UNCHANGED <<memoryDoc, serverTime, lastEnded, commitLog, refreshLog>>

\* Mutant of Retry: the store gives up on the first conflict and
\* runTransaction rejects (maxAttempts: 1).
RetryGivesUp(u, h) ==
  /\ End(u, h, "failed")
  /\ UNCHANGED <<userDoc, userVer, memoryDoc, serverTime, commitLog, refreshLog>>

\* The read set is stale: the attempt's buffered writes are dropped and the
\* update function starts over.
Retry(u, h) ==
  /\ Step(u, h, [Fresh EXCEPT !.retried = TRUE])
  /\ UNCHANGED <<userDoc, userVer, memoryDoc, serverTime, lastEnded, commitLog,
                 refreshLog>>

\* The end of the update function: the store commits the buffered writes
\* atomically, or, the read set being stale, runs the function again.
TxnCommit(u, h) ==
  /\ h.pc = "commit"
  /\ IF Validates(u, h)
     THEN /\ userDoc' = [userDoc EXCEPT ![u] = CommittedUserDoc(u, h)]
          /\ memoryDoc' = [memoryDoc EXCEPT ![u] = CommittedMemoryDoc(u, h)]
          /\ userVer' = [userVer EXCEPT ![u] = @ + 1]
          /\ serverTime' = serverTime + 1
          /\ End(u, h, "done")
          /\ commitLog' = [commitLog EXCEPT ![u] = Append(@, h.newCount - 1)]
          /\ refreshLog' =
               IF Qualifies(h.newCount)
               THEN [refreshLog EXCEPT ![u] =
                       Append(@, [count |-> h.newCount,
                                  seen |-> h.seen,
                                  docs |-> h.docs,
                                  currentMemory |-> h.currentMemory,
                                  summary |-> h.newSummary])]
               ELSE refreshLog
     ELSE Retry(u, h)
  /\ lastCall' = NoCall
  /\ UNCHANGED <<rev, scn, receipts, created, mutations, failedAt>>

(* ------------------------- callable functions -------------------------- *)

\* data.text: undefined, "" or a note.
RawTexts == {"undefined", "", "went for a run"}

\* !rawText
Falsy(rawText) == rawText \in {"undefined", ""}

Response(op, caller, kind, storeReads, genCalls, memory, lines, text) ==
  [op |-> op, caller |-> caller, arg |-> "none", fault |-> "none", kind |-> kind,
   storeReads |-> storeReads, genCalls |-> genCalls, memory |-> memory,
   lines |-> lines, answer |-> 0, text |-> text]

\* Mutant of OnCall: the handler's rejection goes to the caller as it is.
OnCallRaw(response) == response

\* functions.https.onCall: an HttpsError thrown by the handler goes to the
\* caller with its kind; any other rejection of the handler ("unhandled")
\* is logged and goes to the caller as "internal".
OnCall(response) ==
  IF response.kind = "unhandled" THEN [response EXCEPT !.kind = "internal"]
  ELSE response

\* Mutant of ContextHistory: the snapshot is rendered as it was read.
ContextHistoryAsRead(u) == Lines(u, ReceiptsQuery(u, ScribeLimit))

\* recentReceipts.reverse().map(r => `- ${r.message}`)
ContextHistory(u) == Lines(u, Reverse(ReceiptsQuery(u, ScribeLimit)))

\* What goes wrong downstream of a call: nothing, the store rejects the
\* reads, the backend throws, or it answers with a response without text.
Faults == {"none", "store", "error", "malformed"}

\* Mutant of EnhanceTry: the catch rethrows what it caught, so a failed
\* store read reaches the caller with the store's own error code.
EnhanceTryRethrows(u, fault, t) ==
  IF fault = "store" THEN Response("enhance", u, "unavailable", 1, 0, 0, <<>>, 0)
  ELSE IF rev = "r1" \/ fault # "none"
       THEN Response("enhance", u, "internal", 1, 0, 0, <<>>, 0)
       ELSE [Response("enhance", u, "ok", 1, 1, 0, ContextHistory(u), t)
               EXCEPT !.answer = t]

\* The try block of getEnhancedReceipt; t is the text of the answer.
\* r0 reads the receipts only; r1 and r2 read memory/summary first, and r1
\* then calls memoryDoc.exists(), a TypeError that the catch turns into
\* "internal".  memory 0 is the placeholder "No long-term memory yet.".
\* answer is the text the backend answered with (0: none), text the text
\* returned to the caller.
EnhanceTry(u, fault, t) ==
  LET reads == IF rev = "r0" THEN 1 ELSE 2
      memory == IF rev = "r2" /\ memoryDoc[u].exists THEN memoryDoc[u].summary ELSE 0
  IN  IF fault = "store" THEN Response("enhance", u, "internal", 1, 0, 0, <<>>, 0)
      ELSE IF rev = "r1" THEN Response("enhance", u, "internal", 1, 0, 0, <<>>, 0)
      ELSE IF fault = "none"
           THEN [Response("enhance", u, "ok", reads, 1, memory, ContextHistory(u), t)
                   EXCEPT !.answer = t]
           ELSE Response("enhance", u, "internal", reads, 1, memory,
                         ContextHistory(u), 0)

\* Mutant of EnhanceResponse: the text is checked before the caller.
EnhanceResponseTextFirst(caller, rawText, fault, t) ==
  IF Falsy(rawText)
  THEN Response("enhance", caller, "invalid-argument", 0, 0, 0, <<>>, 0)
  ELSE IF caller = Anon
       THEN Response("enhance", caller, "unauthenticated", 0, 0, 0, <<>>, 0)
       ELSE EnhanceTry(caller, fault, t)

\* The checks before the try block, in the handler's order.
EnhanceResponse(caller, rawText, fault, t) ==
  IF caller = Anon
  THEN Response("enhance", caller, "unauthenticated", 0, 0, 0, <<>>, 0)
  ELSE IF Falsy(rawText)
       THEN Response("enhance", caller, "invalid-argument", 0, 0, 0, <<>>, 0)
       ELSE EnhanceTry(caller, fault, t)

\* Mutant of GetEnhancedReceipt: the handler stores the answer as the
\* user's memory summary.
GetEnhancedReceiptSaving(caller, rawText, fault, t) ==
  /\ lastCall' = OnCall([EnhanceResponse(caller, rawText, fault, t)
                           EXCEPT !.arg = rawText, !.fault = fault])
  /\ memoryDoc' = IF lastCall'.kind = "ok"
                  THEN [memoryDoc EXCEPT ![caller] =
                          [exists |-> TRUE, summary |-> t, lastUpdated |-> serverTime]]
                  ELSE memoryDoc
  /\ UNCHANGED <<rev, scn, userDoc, userVer, receipts, created,
                 serverTime, txn, lastEnded, mutations, commitLog, refreshLog,
                 failedAt>>

\* getEnhancedReceipt: the whole handler; it writes nothing.
GetEnhancedReceipt(caller, rawText, fault, t) ==
  /\ lastCall' = OnCall([EnhanceResponse(caller, rawText, fault, t)
                           EXCEPT !.arg = rawText, !.fault = fault])
  /\ UNCHANGED <<rev, scn, userDoc, userVer, receipts, created, memoryDoc,
                 serverTime, txn, lastEnded, mutations, commitLog, refreshLog,
                 failedAt>>

\* Mutant of EditReceipt: the receipt is looked up by its id alone (a
\* collection-group lookup), whoever owns it.
EditReceiptByIdOnly(caller, receiptId, newText, storeOk) ==
  /\ rev = "r2"
  /\ caller # Anon /\ storeOk /\ newText # 0
  /\ \E v \in Users : receiptId \in DOMAIN receipts[v]
  /\ mutations < scn.maxMutations
  /\ LET owner == CHOOSE v \in Users : receiptId \in DOMAIN receipts[v]
     IN  receipts' = [receipts EXCEPT ![owner][receiptId].message = newText]
  /\ mutations' = mutations + 1
  /\ lastCall' = Response("edit", caller, "ok", 0, 0, 0, <<>>, 0)
  /\ UNCHANGED <<rev, scn, userDoc, userVer, created, memoryDoc, serverTime,
                 txn, lastEnded, commitLog, refreshLog, failedAt>>

\* editReceipt (r2).  receiptId 0 is an absent or empty id, newText 0 an
\* absent or empty text.  receiptRef.update rejects when the document does
\* not exist (fault "missing") or the store is down (fault "store"); the
\* handler does not catch it.
EditReceipt(caller, receiptId, newText, storeOk) ==
  /\ rev = "r2"
  /\ IF caller = Anon
     THEN /\ lastCall' = Response("edit", caller, "unauthenticated", 0, 0, 0, <<>>, 0)
          /\ UNCHANGED <<receipts, mutations>>
     ELSE IF receiptId = 0 \/ newText = 0
     THEN /\ lastCall' = Response("edit", caller, "invalid-argument", 0, 0, 0, <<>>, 0)
          /\ UNCHANGED <<receipts, mutations>>
     ELSE IF ~storeOk \/ receiptId \notin DOMAIN receipts[caller]
     THEN /\ lastCall' = OnCall([Response("edit", caller, "unhandled", 0, 0, 0, <<>>, 0)
                                  EXCEPT !.fault = IF storeOk THEN "missing"
                                                   ELSE "store"])
          /\ UNCHANGED <<receipts, mutations>>
     ELSE /\ mutations < scn.maxMutations
          /\ receipts' = [receipts EXCEPT ![caller][receiptId].message = newText]
          /\ mutations' = mutations + 1
          /\ lastCall' = Response("edit", caller, "ok", 0, 0, 0, <<>>, 0)
  /\ UNCHANGED <<rev, scn, userDoc, userVer, created, memoryDoc, serverTime,
                 txn, lastEnded, commitLog, refreshLog, failedAt>>

\* Mutant of DeleteReceipt: deleting a receipt takes one off the user's
\* receiptCount (the counter kept as the number of receipts).
DeleteReceiptDecrements(caller, receiptId, storeOk) ==
  /\ rev = "r2"
  /\ caller # Anon /\ storeOk
  /\ receiptId \in DOMAIN receipts[caller]
  /\ mutations < scn.maxMutations
  /\ receipts' = [receipts EXCEPT ![caller] =
                    [d \in DOMAIN @ \ {receiptId} |-> @[d]]]
  /\ userDoc' = [userDoc EXCEPT ![caller].receiptCount =
                   IF @ > 0 THEN @ - 1 ELSE 0]
  /\ mutations' = mutations + 1
  /\ lastCall' = Response("delete", caller, "ok", 0, 0, 0, <<>>, 0)
  /\ UNCHANGED <<rev, scn, userVer, created, memoryDoc, serverTime,
                 txn, lastEnded, commitLog, refreshLog, failedAt>>

\* deleteReceipt (r2).  receiptRef.delete succeeds on a missing document.
DeleteReceipt(caller, receiptId, storeOk) ==
  /\ rev = "r2"
  /\ IF caller = Anon
     THEN /\ lastCall' = Response("delete", caller, "unauthenticated", 0, 0, 0, <<>>, 0)
          /\ UNCHANGED <<receipts, mutations>>
     ELSE IF receiptId = 0
     THEN /\ lastCall' = Response("delete", caller, "invalid-argument", 0, 0, 0, <<>>, 0)
          /\ UNCHANGED <<receipts, mutations>>
     ELSE IF ~storeOk
     THEN /\ lastCall' = OnCall([Response("delete", caller, "unhandled", 0, 0, 0, <<>>, 0)
                                  EXCEPT !.fault = "store"])
          /\ UNCHANGED <<receipts, mutations>>
     ELSE IF receiptId \notin DOMAIN receipts[caller]
     THEN /\ lastCall' = Response("delete", caller, "ok", 0, 0, 0, <<>>, 0)
          /\ UNCHANGED <<receipts, mutations>>
     ELSE /\ mutations < scn.maxMutations
          /\ receipts' = [receipts EXCEPT ![caller] =
                            [d \in DOMAIN @ \ {receiptId} |-> @[d]]]
          /\ mutations' = mutations + 1
          /\ lastCall' = Response("delete", caller, "ok", 0, 0, 0, <<>>, 0)
  /\ UNCHANGED <<rev, scn, userDoc, userVer, created, memoryDoc, serverTime,
                 txn, lastEnded, commitLog, refreshLog, failedAt>>

\* The curation pipeline alone: creations and their onCreate handlers.
NextPipeline ==
  \/ \E u \in Users : CreateReceipt(u)
  \/ \E u \in Users : \E h \in Running(u) : TxnGet(u, h)
  \/ \E u \in Users : \E h \in Running(u) : TxnQueryReceipts(u, h)
  \/ \E u \in Users : \E h \in Running(u) : TxnReadMemory(u, h)
  \/ \E u \in Users : \E h \in Running(u) : TxnGenerate(u, h)
  \/ \E u \in Users : \E h \in Running(u) : TxnCommit(u, h)

Next ==
  \/ NextPipeline
  \/ \E c \in Callers, rawText \in RawTexts :
        \E fault \in (IF c = Anon \/ Falsy(rawText) THEN {"none"} ELSE Faults) :
           \E t \in (IF c = Anon \/ Falsy(rawText) \/ fault # "none"
                     THEN {1} ELSE Texts) :
              GetEnhancedReceipt(c, rawText, fault, t)
  \/ \E c \in Callers :
        \E receiptId \in 0..(IF c = Anon THEN 1 ELSE created[c] + 1),
           newText \in {0, -1} :
           \E storeOk \in (IF c = Anon \/ receiptId = 0 \/ newText = 0
                           THEN {TRUE} ELSE BOOLEAN) :
              EditReceipt(c, receiptId, newText, storeOk)
  \/ \E c \in Callers :
        \E receiptId \in 0..(IF c = Anon THEN 1 ELSE created[c] + 1) :
           \E storeOk \in (IF c = Anon \/ receiptId = 0 THEN {TRUE} ELSE BOOLEAN) :
              DeleteReceipt(c, receiptId, storeOk)

\* The context assembly: one creation with its handler, and well-formed
\* getEnhancedReceipt calls.
NextContext ==
  \/ NextPipeline
  \/ \E c \in Users, t \in Texts : GetEnhancedReceipt(c, "went for a run", "none", t)

\* Two users: their creations and handlers, and their well-formed calls, on
\* their oldest receipt.
NextIsolation ==
  \/ NextPipeline
  \/ \E c \in Users : GetEnhancedReceipt(c, "went for a run", "none", 1)
  \/ \E c \in Users : EditReceipt(c, 1, -1, TRUE)
  \/ \E c \in Users : DeleteReceipt(c, 1, TRUE)

\* The store and the backend go on: every await of a running handler
\* eventually returns and a transaction that can be committed or re-run
\* eventually is.
HandlersGoOn ==
  /\ WF_vars(\E u \in Users : \E h \in Running(u) : TxnGet(u, h))
  /\ WF_vars(\E u \in Users : \E h \in Running(u) : TxnQueryReceipts(u, h))
  /\ WF_vars(\E u \in Users : \E h \in Running(u) : TxnReadMemory(u, h))
  /\ WF_vars(\E u \in Users : \E h \in Running(u) : TxnGenerate(u, h))
  /\ WF_vars(\E u \in Users : \E h \in Running(u) : TxnCommit(u, h))

Spec == Init /\ [][Next]_vars

SpecLive == InitLive /\ [][NextPipeline]_vars /\ HandlersGoOn

SpecIsolation == InitIsolation /\ [][NextIsolation]_vars

SpecContext == InitContext /\ [][NextContext]_vars

SpecPipeline == InitPipeline /\ [][NextPipeline]_vars

SpecBurst == InitBurst /\ [][NextPipeline]_vars

SpecSeq == InitSeq /\ [][NextPipeline]_vars

(* ---------------------------- properties ------------------------------ *)

AllEnded(u) == InFlight(u) = 0 /\ lastEnded[u] # Idle

GenerateFailures(u) == {i \in DOMAIN failedAt[u] : failedAt[u][i].why = "generate"}

Refreshed(u) == Len(refreshLog[u])

\* C1: when K creation events of one user, starting from receiptCount 0 and
\* with no generative-backend failure, have all run their transactions
\* concurrently, receiptCount is K and exactly one refresh has committed.
C1_BurstRefreshesOnce ==
  \A u \in Users :
    (created[u] = K /\ AllEnded(u) /\ GenerateFailures(u) = {})
      => (CurrentCount(u) = K /\ Refreshed(u) = 1)

\* C2: no two committed transactions of a user read the same pre-increment
\* receiptCount, the counter equals the number of committed transactions,
\* and once every creation's transaction has committed it equals the number
\* of receipts created.
C2_NoLostOrDoubleCount ==
  \A u \in Users :
    /\ \A i, j \in DOMAIN commitLog[u] : i # j => commitLog[u][i] # commitLog[u][j]
    /\ CurrentCount(u) = Len(commitLog[u])
    /\ Len(commitLog[u]) = created[u] => CurrentCount(u) = created[u]

C2_Witness ==
  \E u \in Users :
    /\ created[u] = K
    /\ Len(commitLog[u]) = K
    /\ lastEnded[u].retried /\ lastEnded[u].pc = "done"

\* The window of a refresh is the min(15, n) newest of the n receipts that
\* existed when it was read, newest first in the snapshot.
MostRecent(r) ==
  /\ Len(r.docs) = Min(CuratorLimit, Cardinality(r.seen))
  /\ Range(r.docs) \subseteq r.seen
  /\ \A i, j \in DOMAIN r.docs : i < j => r.docs[i] > r.docs[j]
  /\ \A x \in Range(r.docs), y \in r.seen \ Range(r.docs) : y < x

C4_FailureRollsBack ==
  [][\A u \in Users :
       (/\ Len(failedAt'[u]) = Len(failedAt[u]) + 1
        /\ failedAt'[u][Len(failedAt'[u])].why = "generate"
        /\ \E h \in Running(u) : h.pc = "generate" /\ Qualifies(h.newCount)
                                  /\ lastEnded'[u] = Outcome(h, "failed"))
         => (userDoc' = userDoc /\ memoryDoc' = memoryDoc)]_vars

C4_Witness ==
  \E u \in Users :
    /\ lastEnded[u].pc = "failed"
    /\ Qualifies(lastEnded[u].newCount)
    /\ failedAt[u] # <<>>
    /\ failedAt[u][Len(failedAt[u])] =
         [newCount |-> lastEnded[u].newCount, why |-> "generate"]
    /\ CurrentCount(u) = lastEnded[u].newCount - 1
    /\ ~memoryDoc[u].exists

\* C5 as stated: once the generative call has failed at qualifying count c,
\* receiptCount is never c in a later state.
C5_Original ==
  \A u \in Users : \A i \in GenerateFailures(u) :
    CurrentCount(u) # failedAt[u][i].newCount

\* C5 as amended: once the generative call has failed at qualifying count
\* c, receiptCount stays at least c - 1, and whenever it has reached c a
\* refresh at exactly c has committed with it: the refresh is run again by
\* the next trigger that commits, not lost.
C5_FailedRefreshRunsAgain ==
  \A u \in Users : \A i \in GenerateFailures(u) :
    /\ CurrentCount(u) >= failedAt[u][i].newCount - 1
    /\ CurrentCount(u) >= failedAt[u][i].newCount
         => \E j \in DOMAIN refreshLog[u] :
              refreshLog[u][j].count = failedAt[u][i].newCount

C5_Witness ==
  \E u \in Users : \E i \in GenerateFailures(u) :
    /\ CurrentCount(u) = failedAt[u][i].newCount
    /\ memoryDoc[u].exists

\* C6: with a user record that was never initialized (or has no
\* receiptCount), the first creation event commits receiptCount = 1, in
\* every revision that has the trigger.
C6_ToleratesMissingUser ==
  \A u \in Users :
    (created[u] = 1 /\ InFlight(u) = 0)
      => userDoc[u] = [exists |-> TRUE, hasCount |-> TRUE, receiptCount |-> 1]

\* C7 as stated: the receipts read by two committed refreshes of a user
\* share no receipt.
C7_Original ==
  \A u \in Users : \A i, j \in DOMAIN refreshLog[u] :
    i # j => Range(refreshLog[u][i].docs) \cap Range(refreshLog[u][j].docs) = {}

\* C7 as amended: no two committed refreshes of a user are for the same
\* count (the i-th is the one at count K * i); the receipts they read may
\* overlap.
C7_OneRefreshPerCount ==
  \A u \in Users : \A i, j \in DOMAIN refreshLog[u] :
    /\ refreshLog[u][i].count = K * i
    /\ i # j => refreshLog[u][i].count # refreshLog[u][j].count

C7_Witness ==
  \E u \in Users :
    /\ Refreshed(u) = 2
    /\ Range(refreshLog[u][1].docs) \cap Range(refreshLog[u][2].docs) # {}

\* C8: a step changes the user record or the memory summary only when one
\* handler's transaction commits, and then receiptCount grows by exactly
\* one; an attempt that is aborted and re-run leaves both as they were.
C8_RetryIsInvisible ==
  [][\A u \in Users :
       (userDoc'[u] # userDoc[u] \/ memoryDoc'[u] # memoryDoc[u])
         => \E h \in Running(u) :
              /\ h.pc = "commit"
              /\ txn'[u] = txn[u] (-) SetToBag({h})
              /\ lastEnded'[u] = Outcome(h, "done")
              /\ CurrentCount(u)' = CurrentCount(u) + 1]_vars

C8_Witness ==
  \E u \in Users :
    /\ lastEnded[u].retried /\ lastEnded[u].pc = "done"
    /\ Qualifies(lastEnded[u].newCount)
    /\ memoryDoc[u].exists

\* C9: a getEnhancedReceipt call, whatever its outcome, leaves every
\* user's record, memory summary and receipts as they were.
C9_EnhanceWritesNothing ==
  [][lastCall'.op = "enhance"
       => (userDoc' = userDoc /\ memoryDoc' = memoryDoc /\ receipts' = receipts)]_vars

C9_Witness ==
  /\ lastCall.op = "enhance" /\ lastCall.kind = "ok"
  /\ \E u \in Users : lastCall.caller = u /\ memoryDoc[u].exists
                      /\ lastCall.memory = memoryDoc[u].summary

EnhanceRan ==
  lastCall.op = "enhance" /\ lastCall.caller # Anon /\ ~Falsy(lastCall.arg)

MutationFailed ==
  /\ lastCall.op \in {"edit", "delete"} /\ lastCall.caller # Anon
  /\ lastCall.fault \in {"store", "missing"}

NewestOldestFirst(lines, u, n) ==
  LET stamp(d) == receipts[u][d].timestamp IN
  /\ Len(lines) = Min(n, Cardinality(DOMAIN receipts[u]))
  /\ Range(lines) \subseteq DOMAIN receipts[u]
  /\ \A i, j \in DOMAIN lines : i < j => stamp(lines[i]) < stamp(lines[j])
  /\ \A x \in Range(lines), y \in DOMAIN receipts[u] \ Range(lines) :
       stamp(y) < stamp(x)

\* C13: the entry list of the enhancement prompt is the 3 (or fewer, if
\* fewer exist) receipts with the greatest timestamps, oldest first, and
\* the entry list of the curation prompt the 15 (or fewer) such receipts,
\* oldest first, whatever the store holds.
C13_PromptListsNewestOldestFirst ==
  /\ (lastCall.op = "enhance" /\ lastCall.genCalls = 1)
       => \E u \in Users : /\ lastCall.caller = u
                           /\ NewestOldestFirst(lastCall.lines, u, ScribeLimit)
  /\ \A u \in Users : \A h \in Running(u) :
       h.pc \in {"memory", "generate", "commit"}
         => NewestOldestFirst(h.recentHistory, u, CuratorLimit)

C13_Witness ==
  \E u \in Users : \E h \in Running(u) :
    /\ h.pc = "generate"
    /\ Len(h.recentHistory) = CuratorLimit
    /\ Cardinality(DOMAIN receipts[u]) > CuratorLimit
    /\ h.recentHistory[1] > h.recentHistory[2]
    /\ \E d \in DOMAIN receipts[u] \ Range(h.recentHistory) :
         \E x \in Range(h.recentHistory) : d > x

\* C14: a user's memory summary is absent as long as no refresh has
\* committed, in particular while receiptCount < K; the commit of a refresh
\* leaves it present with exactly the generated text and a later
\* lastUpdated than before, the first one taking it from absent to present;
\* no other step changes it.
C14_SummaryLifecycle ==
  /\ [](\A u \in Users :
          (Refreshed(u) = 0 \/ CurrentCount(u) < K) => memoryDoc[u] = NoMemoryDoc)
  /\ [][\A u \in Users :
          IF Refreshed(u)' = Refreshed(u)
          THEN memoryDoc'[u] = memoryDoc[u]
          ELSE /\ Refreshed(u)' = Refreshed(u) + 1
               /\ memoryDoc[u].exists <=> Refreshed(u) > 0
               /\ memoryDoc'[u].exists
               /\ memoryDoc'[u].summary = refreshLog'[u][Refreshed(u)'].summary
               /\ memoryDoc'[u].summary \in Texts
               /\ memoryDoc'[u].lastUpdated > memoryDoc[u].lastUpdated]_vars

C14_Witness ==
  \E u \in Users :
    /\ Refreshed(u) = 2
    /\ refreshLog[u][1].summary # refreshLog[u][2].summary
    /\ memoryDoc[u].summary = refreshLog[u][2].summary
    /\ memoryDoc[u].lastUpdated > K

\* C15: the commit of a refresh leaves the memory summary equal to the
\* committed text and the commit time, whether or not a summary existed and
\* whatever it held; committing the text it already holds leaves the
\* summary field as it was; lastUpdated never decreases; and a handler
\* that has reached its commit never ends rejected.
C15_CommitIsUpsert ==
  [][\A u \in Users :
       /\ memoryDoc'[u].lastUpdated >= memoryDoc[u].lastUpdated
       /\ \A h \in Running(u) :
            (h.pc = "commit" /\ txn'[u] = txn[u] (-) SetToBag({h}))
              => lastEnded'[u] = Outcome(h, "done")
       /\ Refreshed(u)' = Refreshed(u) + 1
            => /\ memoryDoc'[u] =
                    [exists |-> TRUE,
                     summary |-> refreshLog'[u][Refreshed(u)'].summary,
                     lastUpdated |-> serverTime']
               /\ (memoryDoc[u].exists
                     /\ memoryDoc[u].summary = refreshLog'[u][Refreshed(u)'].summary)
                    => memoryDoc'[u].summary = memoryDoc[u].summary]_vars

C15_Witness ==
  \E u \in Users :
    /\ Refreshed(u) = 2
    /\ refreshLog[u][1].summary = refreshLog[u][2].summary
    /\ refreshLog[u][2].currentMemory = refreshLog[u][1].summary
    /\ memoryDoc[u].summary = refreshLog[u][2].summary
    /\ memoryDoc[u].lastUpdated = serverTime

\* C16: receiptCount never decreases; the commit of a creation's
\* transaction raises it by exactly one and no other step changes it; an
\* editReceipt or deleteReceipt call leaves the user record as it was.
C16_CountsCreations ==
  [][\A u \in Users :
       /\ CurrentCount(u)' >= CurrentCount(u)
       /\ CurrentCount(u)' =
            CurrentCount(u) + (Len(commitLog'[u]) - Len(commitLog[u]))
       /\ Len(commitLog'[u]) - Len(commitLog[u]) \in {0, 1}
       /\ lastCall'.op \in {"edit", "delete"} => userDoc' = userDoc]_vars

\* A receipt was deleted and the counter still counts it.
C16_Witness ==
  \E u \in Users :
    /\ lastCall.op = "delete" /\ lastCall.kind = "ok" /\ lastCall.caller = u
    /\ mutations = 1
    /\ CurrentCount(u) = created[u] /\ created[u] >= 2
    /\ Cardinality(DOMAIN receipts[u]) = CurrentCount(u) - 1

\* The step changes the record, the summary or the receipts of u.
Touched(u) ==
  \/ userDoc'[u] # userDoc[u]
  \/ memoryDoc'[u] # memoryDoc[u]
  \/ receipts'[u] # receipts[u]

\* The step is done for u: a call of u's, or u's creation or handler.
ActsFor(u) ==
  \/ lastCall'.op # "none" /\ lastCall'.caller = u
  \/ txn'[u] # txn[u]

\* C17: a step that changes anything of a user is done for that user and
\* changes nothing of any other user; the memory summary changes only
\* when the user's own handler commits; the receipts change only by the
\* user's own creation (one new receipt, the others untouched) or by the
\* user's own successful editReceipt or deleteReceipt call, never by a
\* handler's step.
C17_UsersAreIsolated ==
  [][\A u \in Users :
       /\ Touched(u) => (ActsFor(u) /\ \A v \in Users \ {u} : ~Touched(v))
       /\ memoryDoc'[u] # memoryDoc[u]
            => \E h \in Running(u) :
                 h.pc = "commit" /\ txn'[u] = txn[u] (-) SetToBag({h})
       /\ receipts'[u] # receipts[u]
            => \/ /\ created'[u] = created[u] + 1
                  /\ DOMAIN receipts'[u] = DOMAIN receipts[u] \cup {created'[u]}
                  /\ \A d \in DOMAIN receipts[u] : receipts'[u][d] = receipts[u][d]
               \/ /\ lastCall'.op \in {"edit", "delete"}
                  /\ lastCall'.caller = u /\ lastCall'.kind = "ok"
                  /\ created' = created /\ txn' = txn]_vars

\* Both users have a summary of their own and one of them has edited a
\* receipt of its own.
C17_Witness ==
  /\ \A u \in Users : memoryDoc[u].exists
  /\ memoryDoc["u1"].summary # memoryDoc["u2"].summary
  /\ lastCall.op = "edit" /\ lastCall.kind = "ok"
  /\ \E u \in Users : /\ lastCall.caller = u
                      /\ \E d \in DOMAIN receipts[u] : receipts[u][d].message = -1
                      /\ \A v \in Users \ {u} :
                           \A d \in DOMAIN receipts[v] : receipts[v][d].message = d

\* C18: in every state the number of committed summary writes of a user
\* is floor(receiptCount / K), whatever the interleaving of concurrent
\* handlers, retries and failed generative calls.
C18_RefreshesMatchCounter ==
  \A u \in Users : Refreshed(u) = CurrentCount(u) \div K

\* A refresh failed, a later handler committed it, and handlers were
\* re-run on the way past the multiple.
C18_Witness ==
  \E u \in Users :
    /\ GenerateFailures(u) # {}
    /\ Refreshed(u) = 1 /\ CurrentCount(u) > K
    /\ lastEnded[u].retried /\ lastEnded[u].pc = "done"

\* C19: the current summary embedded in the prompt of every committed
\* refresh is the text the preceding committed refresh of that user wrote,
\* and empty (0) for the first refresh.
C19_RefreshesChain ==
  \A u \in Users : \A i \in DOMAIN refreshLog[u] :
    refreshLog[u][i].currentMemory =
      IF i = 1 THEN 0 ELSE refreshLog[u][i - 1].summary

\* The second refresh was committed by a handler that was re-run, on the
\* first one's text.
C19_Witness ==
  \E u \in Users :
    /\ Refreshed(u) = 2 /\ CurrentCount(u) = 2 * K
    /\ lastEnded[u] = [pc |-> "done", retried |-> TRUE, newCount |-> 2 * K]
    /\ refreshLog[u][2].currentMemory = refreshLog[u][1].summary
    /\ refreshLog[u][2].currentMemory # refreshLog[u][2].summary

\* Every creation of u has been counted and refreshed on, and no handler
\* of u is running.
Settled(u) ==
  /\ InFlight(u) = 0
  /\ CurrentCount(u) = created[u]
  /\ Refreshed(u) = created[u] \div K

\* C20: with a backend that always answers and a store that goes on
\* committing and re-running transactions, whatever the number n of
\* receipts a user ends up creating (creations may stop at any n), the
\* system reaches a state with receiptCount = n, floor(n / K) committed
\* refreshes and no handler running, and stays in it; a state of this kind
\* is left only by the next creation.
C20_EveryTriggerCommits ==
  /\ \A u \in {"u1"} : <>[]Settled(u)
  /\ [][\A u \in Users :
          (Settled(u) /\ created'[u] = created[u]) => Settled(u)']_vars

\* All the creations are settled, the last handler after being re-run and
\* past a refresh.
C20_Witness ==
  \E u \in Users :
    /\ created[u] = MaxLiveCreated /\ Settled(u)
    /\ Refreshed(u) >= 1
    /\ lastEnded[u].retried /\ lastEnded[u].pc = "done"

====
